---- MODULE Spec2Model ----
(***************************************************************************)
(* Model of src/src/scheduler.py: a multi-queue round-robin scheduler.     *)
(* The Scheduler object's fields are the variables time, queues,           *)
(* queue_order, id_counter, skip_flags and rr_index.  Each public method   *)
(* is one action; run() is a call prefix (Run) followed by one Turn step   *)
(* per iteration of its while loop, during which no other method runs      *)
(* (the program is single-threaded).  call is the call being executed or   *)
(* the last one made, local holds run's local variables, logs is the list  *)
(* the call returns and stdout what it printed.  trail records, for the    *)
(* last two run events emitted over all calls, the queue named and the     *)
(* number of queues registered at that turn.                               *)
(***************************************************************************)
EXTENDS Integers, Sequences, FiniteSets, TLC

VARIABLES time, queues, queue_order, id_counter, skip_flags, rr_index,
          pc, call, local, logs, stdout, trail

vars == <<time, queues, queue_order, id_counter, skip_flags, rr_index,
          pc, call, local, logs, stdout, trail>>

state == <<time, queues, queue_order, id_counter, skip_flags, rr_index>>

-----------------------------------------------------------------------------
(* Bounds of the model. *)

MaxQueues == 2      \* number of queue ids that create_queue is called with
MaxCap == 2         \* largest capacity passed to create_queue
MaxEnqueues == 2    \* enqueue calls made on registered queues, all together
MaxQuantum == 2     \* largest quantum passed to run
BigCap == 26        \* capacity of the one queue of the long-drain scenario

(* Program constants. *)

SafetyFactor == 100 \* turns = n_queues * 100
PadWidth == 3       \* :03d

-----------------------------------------------------------------------------
(* Inputs. *)

IdPool == <<"c1", "c2", "c3", "c4">>

QueueIds == {IdPool[i] : i \in 1..MaxQueues}

Unregistered == "zz"   \* an id that create_queue is never called with

REQUIRED_MENU ==
    [americano |-> 2, latte |-> 3, cappuccino |-> 3, mocha |-> 4,
     tea |-> 1, macchiato |-> 2, hot_chocolate |-> 4]

UnknownItem == "espresso"

\* the item names enqueue is called with: one on the menu, which takes several
\* turns to serve at either quantum, and one that is not on it
ItemNames == {"latte", UnknownItem}

None == <<>>          \* Optional[...]: None is <<>>, a value v is <<v>>

Some(v) == <<v>>

-----------------------------------------------------------------------------
(* Helpers. *)

Min(a, b) == IF a <= b THEN a ELSE b

RECURSIVE Digits(_)
Digits(n) == IF n < 10 THEN <<n>> ELSE Append(Digits(n \div 10), n % 10)

RECURSIVE ZeroPad(_, _)
ZeroPad(ds, width) == IF Len(ds) >= width THEN ds ELSE ZeroPad(<<0>> \o ds, width)

\* f"{queue_id}-{counter:03d}": the queue id and the counter's decimal digits,
\* zero-padded on the left to three digits
TaskId(queue_id, counter) ==
    [queue |-> queue_id, digits |-> ZeroPad(Digits(counter), PadWidth)]

\* a task entered with one minute more than its cost
TaskCostsOneMore(task_id, remaining) ==
    [task_id |-> task_id, remaining |-> remaining + 1]

\* Task(task_id, remaining)
Task(task_id, remaining) == [task_id |-> task_id, remaining |-> remaining]

\* QueueRR.__init__
QueueRR(queue_id, capacity) ==
    [queue_id |-> queue_id, capacity |-> capacity, data |-> <<>>]

\* QueueRR.enqueue with its test off by one
QEnqueueOffByOne(q, task) ==
    IF Len(q.data) > q.capacity
    THEN [ok |-> FALSE, q |-> q]
    ELSE [ok |-> TRUE, q |-> [q EXCEPT !.data = Append(@, task)]]

\* QueueRR.enqueue: the result and the queue after the call
QEnqueue(q, task) ==
    IF Len(q.data) >= q.capacity
    THEN [ok |-> FALSE, q |-> q]
    ELSE [ok |-> TRUE, q |-> [q EXCEPT !.data = Append(@, task)]]

\* QueueRR.dequeue: the task returned (None when empty) and the queue after
QDequeue(q) ==
    IF q.data = <<>>
    THEN [task |-> None, q |-> q]
    ELSE [task |-> Some(Head(q.data)), q |-> [q EXCEPT !.data = Tail(@)]]

\* Scheduler.next_queue
next_queue(order, rr) ==
    IF order = <<>> THEN None ELSE Some(order[(rr % Len(order)) + 1])

\* sorted(self._menu.items()) of the fixed menu
SortedMenu ==
    << <<"americano", 2>>, <<"cappuccino", 3>>, <<"hot_chocolate", 4>>,
       <<"latte", 3>>, <<"macchiato", 2>>, <<"mocha", 4>>, <<"tea", 1>> >>

\* Scheduler.display, on the given field values
display(t, qs, order, skips, rr) ==
    LET nq == next_queue(order, rr)
    IN  << [display |-> "time", time |-> t,
            next |-> IF nq = None THEN "none" ELSE nq[1]],
           [display |-> "menu", menu |-> SortedMenu] >>
        \o [i \in 1..Len(order) |->
               [display |-> "queue", queue |-> order[i],
                count |-> Len(qs[order[i]].data),
                capacity |-> qs[order[i]].capacity,
                skip |-> skips[order[i]],
                tasks |-> qs[order[i]].data]]

\* run's local variables while no run call is active
NoLocals == [n_queues |-> 0, turns |-> 0, turns_done |-> 0]

-----------------------------------------------------------------------------
(* Scheduler.__init__ *)

Init ==
    /\ time = 0
    /\ queues = <<>>
    /\ queue_order = <<>>
    /\ id_counter = <<>>
    /\ skip_flags = <<>>
    /\ rr_index = 0
    /\ pc = "idle"
    /\ call = [op |-> "init"]
    /\ local = NoLocals
    /\ logs = <<>>
    /\ stdout = <<>>
    /\ trail = <<>>

(* Scheduler.create_queue *)

\* create_queue taking the capacity of a later call for an existing id
CreateQueueResizes(queue_id, capacity) ==
    /\ pc = "idle"
    /\ call' = [op |-> "create_queue", queue_id |-> queue_id, capacity |-> capacity]
    /\ local' = NoLocals
    /\ stdout' = <<>>
    /\ IF queue_id \notin DOMAIN queues
       THEN /\ queues' = (queue_id :> QueueRR(queue_id, capacity)) @@ queues
            /\ queue_order' = Append(queue_order, queue_id)
            /\ id_counter' = (queue_id :> 0) @@ id_counter
            /\ skip_flags' = (queue_id :> FALSE) @@ skip_flags
            /\ logs' = << [time |-> time, event |-> "create", queue |-> queue_id] >>
       ELSE /\ logs' = <<>>
            /\ queues' = [queues EXCEPT ![queue_id].capacity = capacity]
            /\ UNCHANGED <<queue_order, id_counter, skip_flags>>
    /\ UNCHANGED <<time, rr_index, pc, trail>>

CreateQueue(queue_id, capacity) ==
    /\ pc = "idle"
    /\ call' = [op |-> "create_queue", queue_id |-> queue_id, capacity |-> capacity]
    /\ local' = NoLocals
    /\ stdout' = <<>>
    /\ IF queue_id \notin DOMAIN queues
       THEN /\ queues' = (queue_id :> QueueRR(queue_id, capacity)) @@ queues
            /\ queue_order' = Append(queue_order, queue_id)
            /\ id_counter' = (queue_id :> 0) @@ id_counter
            /\ skip_flags' = (queue_id :> FALSE) @@ skip_flags
            /\ logs' = << [time |-> time, event |-> "create", queue |-> queue_id] >>
       ELSE /\ logs' = <<>>
            /\ UNCHANGED <<queues, queue_order, id_counter, skip_flags>>
    /\ UNCHANGED <<time, rr_index, pc, trail>>

(* Scheduler.enqueue *)

\* the counter left as it was
NextIdReused(counter) == counter

\* the counter raised by two
NextIdByTwo(counter) == counter + 2

\* self.id_counter[queue_id] += 1
NextId(counter) == counter + 1

\* enqueue testing the capacity before the menu
EnqueueCapacityFirst(queue_id, item_name) ==
    /\ pc = "idle"
    /\ call' = [op |-> "enqueue", queue_id |-> queue_id, item_name |-> item_name]
    /\ local' = NoLocals
    /\ IF queue_id \notin DOMAIN queues
       THEN /\ logs' = <<>>
            /\ stdout' = <<>>
            /\ UNCHANGED <<queues, id_counter>>
       ELSE LET q == queues[queue_id]
                counter == NextId(id_counter[queue_id])
                task_id == TaskId(queue_id, counter)
            IN  /\ id_counter' = [id_counter EXCEPT ![queue_id] = counter]
                /\ IF Len(q.data) >= q.capacity
                   THEN /\ stdout' = <<"Sorry, we're at capacity.">>
                        /\ logs' = << [time |-> time, event |-> "reject",
                                       queue |-> queue_id, task |-> task_id,
                                       reason |-> "full"] >>
                        /\ UNCHANGED queues
                   ELSE IF item_name \notin DOMAIN REQUIRED_MENU
                   THEN /\ stdout' = <<"Sorry, we don't serve that.">>
                        /\ logs' = << [time |-> time, event |-> "reject",
                                       queue |-> queue_id, task |-> task_id,
                                       reason |-> "unknown_item"] >>
                        /\ UNCHANGED queues
                   ELSE LET burst == REQUIRED_MENU[item_name]
                            r == QEnqueue(q, Task(task_id, burst))
                        IN  /\ stdout' = <<>>
                            /\ logs' = << [time |-> time, event |-> "enqueue",
                                           queue |-> queue_id, task |-> task_id,
                                           remaining |-> burst] >>
                            /\ queues' = [queues EXCEPT ![queue_id] = r.q]
    /\ UNCHANGED <<time, queue_order, skip_flags, rr_index, pc, trail>>

Enqueue(queue_id, item_name) ==
    /\ pc = "idle"
    /\ call' = [op |-> "enqueue", queue_id |-> queue_id, item_name |-> item_name]
    /\ local' = NoLocals
    /\ IF queue_id \notin DOMAIN queues
       THEN /\ logs' = <<>>
            /\ stdout' = <<>>
            /\ UNCHANGED <<queues, id_counter>>
       ELSE LET q == queues[queue_id]
                counter == NextId(id_counter[queue_id])
                task_id == TaskId(queue_id, counter)
            IN  /\ id_counter' = [id_counter EXCEPT ![queue_id] = counter]
                /\ IF item_name \notin DOMAIN REQUIRED_MENU
                   THEN /\ stdout' = <<"Sorry, we don't serve that.">>
                        /\ logs' = << [time |-> time, event |-> "reject",
                                       queue |-> queue_id, task |-> task_id,
                                       reason |-> "unknown_item"] >>
                        /\ UNCHANGED queues
                   ELSE LET burst == REQUIRED_MENU[item_name]
                            r == QEnqueue(q, Task(task_id, burst))
                        IN  IF ~r.ok
                            THEN /\ stdout' = <<"Sorry, we're at capacity.">>
                                 /\ logs' = << [time |-> time, event |-> "reject",
                                                queue |-> queue_id, task |-> task_id,
                                                reason |-> "full"] >>
                                 /\ UNCHANGED queues
                            ELSE /\ stdout' = <<>>
                                 /\ logs' = << [time |-> time, event |-> "enqueue",
                                                queue |-> queue_id, task |-> task_id,
                                                remaining |-> burst] >>
                                 /\ queues' = [queues EXCEPT ![queue_id] = r.q]
    /\ UNCHANGED <<time, queue_order, skip_flags, rr_index, pc, trail>>

(* Scheduler.mark_skip *)

\* mark_skip without its test
HasSkipFlagAlways(queue_id) == TRUE

\* queue_id in self.skip_flags
HasSkipFlag(queue_id) == queue_id \in DOMAIN skip_flags

MarkSkip(queue_id) ==
    /\ pc = "idle"
    /\ call' = [op |-> "mark_skip", queue_id |-> queue_id]
    /\ local' = NoLocals
    /\ stdout' = <<>>
    /\ IF HasSkipFlag(queue_id)
       THEN /\ skip_flags' = (queue_id :> TRUE) @@ skip_flags
            /\ logs' = << [time |-> time, event |-> "skip", queue |-> queue_id] >>
       ELSE /\ logs' = <<>>
            /\ UNCHANGED skip_flags
    /\ UNCHANGED <<time, queues, queue_order, id_counter, rr_index, pc, trail>>

(* Scheduler.display called on its own *)

Display ==
    /\ pc = "idle"
    /\ call' = [op |-> "display"]
    /\ local' = NoLocals
    /\ stdout' = <<>>
    /\ logs' = display(time, queues, queue_order, skip_flags, rr_index)
    /\ UNCHANGED <<state, pc, trail>>

(* Scheduler.run: the call, up to the first test of the while loop *)

\* the test without its upper bound
InvalidStepsLowOnly(steps, n_queues) == steps[1] < 1

\* steps < 1 or steps > n_queues
InvalidSteps(steps, n_queues) == steps[1] < 1 \/ steps[1] > n_queues

\* the ceiling of the unbounded mode set twice as high
TurnsDoubled(steps, n_queues) ==
    IF steps # None THEN steps[1] ELSE n_queues * SafetyFactor * 2

\* the number of turns the loop is allowed
Turns(steps, n_queues) ==
    IF steps # None THEN steps[1] ELSE n_queues * SafetyFactor

\* run validating steps before it looks for queues
RunValidatesFirst(quantum, steps) ==
    /\ pc = "idle"
    /\ call' = [op |-> "run", quantum |-> quantum, steps |-> steps]
    /\ stdout' = <<>>
    /\ LET n_queues == Len(queue_order)
       IN  IF steps # None /\ InvalidSteps(steps, n_queues)
           THEN /\ logs' = << [time |-> time, event |-> "error",
                               reason |-> "invalid_steps"] >>
                /\ local' = NoLocals
                /\ pc' = "idle"
           ELSE IF n_queues = 0
           THEN /\ logs' = <<>>
                /\ local' = NoLocals
                /\ pc' = "idle"
           ELSE /\ logs' = <<>>
                /\ local' = [n_queues |-> n_queues,
                             turns |-> Turns(steps, n_queues),
                             turns_done |-> 0]
                /\ pc' = "loop"
    /\ UNCHANGED <<state, trail>>

Run(quantum, steps) ==
    /\ pc = "idle"
    /\ call' = [op |-> "run", quantum |-> quantum, steps |-> steps]
    /\ stdout' = <<>>
    /\ LET n_queues == Len(queue_order)
       IN  IF n_queues = 0
           THEN /\ logs' = <<>>
                /\ local' = NoLocals
                /\ pc' = "idle"
           ELSE IF steps # None /\ InvalidSteps(steps, n_queues)
           THEN /\ logs' = << [time |-> time, event |-> "error",
                               reason |-> "invalid_steps"] >>
                /\ local' = NoLocals
                /\ pc' = "idle"
           ELSE /\ logs' = <<>>
                /\ local' = [n_queues |-> n_queues,
                             turns |-> Turns(steps, n_queues),
                             turns_done |-> 0]
                /\ pc' = "loop"
    /\ UNCHANGED <<state, trail>>

(* Scheduler.run: one iteration of the while loop, and the return after it *)

\* the whole quantum, whatever remains of the task
WorkTimeQuantum(task, quantum) == quantum

\* min(task.remaining, quantum)
WorkTime(task, quantum) == Min(task.remaining, quantum)

\* the cursor left where it is
NextIndexStay(rr, n_queues) == rr % n_queues

\* the cursor moved without the wrap
NextIndexNoWrap(rr, n_queues) == rr + 1

\* (self.rr_index + 1) % n_queues
NextIndex(rr, n_queues) == (rr + 1) % n_queues

\* all_empty and no_skips
Drained(qs, skips) ==
    /\ \A q \in DOMAIN qs : Len(qs[q].data) = 0
    /\ ~ \E q \in DOMAIN skips : skips[q]

\* the test made with >= in place of >
UnfinishedOrDone(task) == task.remaining >= 0

\* if task.remaining > 0
Unfinished(task) == task.remaining > 0

\* the skip branch taking the head task out as well
TurnSkipDropsHead(qid) ==
    [time |-> time, queues |-> [queues EXCEPT ![qid] = QDequeue(@).q],
     skip_flags |-> [skip_flags EXCEPT ![qid] = FALSE], events |-> <<>>]

\* the skip branch leaving the flag set
TurnSkipKeepsFlag(qid) ==
    [time |-> time, queues |-> queues, skip_flags |-> skip_flags, events |-> <<>>]

\* the skip branch: the flag is cleared, nothing else
TurnSkip(qid) ==
    [time |-> time, queues |-> queues,
     skip_flags |-> [skip_flags EXCEPT ![qid] = FALSE], events |-> <<>>]

\* the service branch testing the capacity on the queue as it was before the
\* dequeue: the task served from a full queue is not put back
TurnWorkFullDrops(qid, quantum) ==
    LET d == QDequeue(queues[qid])
        task == d.task[1]
        work_time == WorkTime(task, quantum)
        served == [task EXCEPT !.remaining = @ - work_time]
        now == time + work_time
    IN  IF Unfinished(served)
        THEN [time |-> now,
              queues |-> [queues EXCEPT ![qid] =
                             IF QEnqueue(queues[qid], served).ok
                             THEN QEnqueue(d.q, served).q ELSE d.q],
              skip_flags |-> skip_flags,
              events |-> << [time |-> now, event |-> "work", queue |-> qid,
                             task |-> served.task_id,
                             remaining |-> served.remaining] >>]
        ELSE [time |-> now,
              queues |-> [queues EXCEPT ![qid] = d.q],
              skip_flags |-> skip_flags,
              events |-> << [time |-> now, event |-> "finish", queue |-> qid,
                             task |-> served.task_id] >>]

\* the branch of a queue that holds a task
TurnWork(qid, quantum) ==
    LET d == QDequeue(queues[qid])
        task == d.task[1]
        work_time == WorkTime(task, quantum)
        served == [task EXCEPT !.remaining = @ - work_time]
        now == time + work_time
    IN  IF Unfinished(served)
        THEN [time |-> now,
              queues |-> [queues EXCEPT ![qid] = QEnqueue(d.q, served).q],
              skip_flags |-> skip_flags,
              events |-> << [time |-> now, event |-> "work", queue |-> qid,
                             task |-> served.task_id,
                             remaining |-> served.remaining] >>]
        ELSE [time |-> now,
              queues |-> [queues EXCEPT ![qid] = d.q],
              skip_flags |-> skip_flags,
              events |-> << [time |-> now, event |-> "finish", queue |-> qid,
                             task |-> served.task_id] >>]

\* the branch of an empty queue letting a minute pass
TurnEmptyTicks ==
    [time |-> time + 1, queues |-> queues, skip_flags |-> skip_flags,
     events |-> <<>>]

\* the branch of an empty queue
TurnEmpty ==
    [time |-> time, queues |-> queues, skip_flags |-> skip_flags, events |-> <<>>]

\* the body of the loop for the queue at rr_index, up to the cursor's move
TurnBody(qid, quantum) ==
    IF skip_flags[qid] THEN TurnSkip(qid)
    ELSE IF Len(queues[qid].data) > 0 THEN TurnWork(qid, quantum)
    ELSE TurnEmpty

\* the test made in every mode
StopWhenDrained(steps, qs, skips) == Drained(qs, skips)

\* the test made after a turn when steps is None
StopEarly(steps, qs, skips) == steps = None /\ Drained(qs, skips)

\* the last two entries of a sequence
LastTwo(seq) == IF Len(seq) <= 2 THEN seq ELSE SubSeq(seq, Len(seq) - 1, Len(seq))

Turn ==
    /\ pc = "loop"
    /\ IF ~ (local.turns_done < local.turns) \/ local.n_queues = 0
       THEN /\ pc' = "idle"
            /\ local' = NoLocals
            /\ UNCHANGED <<state, logs, trail>>
       ELSE LET qid == queue_order[rr_index + 1]
                b == TurnBody(qid, call.quantum)
                rr == NextIndex(rr_index, local.n_queues)
                done == local.turns_done + 1
            IN  /\ time' = b.time
                /\ queues' = b.queues
                /\ skip_flags' = b.skip_flags
                /\ rr_index' = rr
                /\ logs' = logs
                            \o << [time |-> time, event |-> "run", queue |-> qid] >>
                            \o b.events
                            \o display(b.time, b.queues, queue_order, b.skip_flags, rr)
                /\ IF StopEarly(call.steps, b.queues, b.skip_flags)
                      \/ ~ (done < local.turns)
                   THEN pc' = "idle" /\ local' = NoLocals
                   ELSE pc' = "loop" /\ local' = [local EXCEPT !.turns_done = done]
                /\ trail' = LastTwo(Append(trail, [queue |-> qid,
                                                    n |-> Len(queue_order)]))
                /\ UNCHANGED <<queue_order, id_counter>>
    /\ UNCHANGED <<call, stdout>>

-----------------------------------------------------------------------------
(* The calls a client makes, with their arguments drawn from small sets. *)

StepsArgs == {None} \cup {Some(s) : s \in 0..(MaxQueues + 1)}

RECURSIVE Attempts(_)
Attempts(ids) ==
    IF ids = {} THEN 0
    ELSE LET q == CHOOSE x \in ids : TRUE
         IN  id_counter[q] + Attempts(ids \ {q})

AttemptsLeft(queue_id, most) ==
    queue_id \in DOMAIN id_counter => Attempts(DOMAIN id_counter) < most

Next ==
    \/ \E queue_id \in QueueIds, capacity \in 1..MaxCap :
           CreateQueue(queue_id, capacity)
    \/ \E queue_id \in QueueIds \cup {Unregistered}, item_name \in ItemNames :
           AttemptsLeft(queue_id, MaxEnqueues) /\ Enqueue(queue_id, item_name)
    \/ \E queue_id \in QueueIds \cup {Unregistered} : MarkSkip(queue_id)
    \/ \E quantum \in 1..MaxQuantum, steps \in StepsArgs : Run(quantum, steps)
    \/ Turn
    \/ Display

Spec == Init /\ [][Next]_vars

(* A long drain: one queue of capacity BigCap is filled with the longest   *)
(* item of the menu and drained by unbounded runs of quantum 1.            *)

LongQueue == "c1"

LongItem == "mocha"

NextLong ==
    \/ CreateQueue(LongQueue, BigCap)
    \/ AttemptsLeft(LongQueue, BigCap) /\ Enqueue(LongQueue, LongItem)
    \/ Run(1, None)
    \/ Turn

SpecLong == Init /\ [][NextLong]_vars

(* Unbounded runs at every quantum from 0 up, on the long queue and a      *)
(* second, empty one.  A run call that has started goes on to its return:  *)
(* the loop's turns are weakly fair.                                       *)

SecondQueue == "c2"

NextDrain ==
    \/ CreateQueue(LongQueue, BigCap)
    \/ CreateQueue(SecondQueue, 1)
    \/ AttemptsLeft(LongQueue, MaxEnqueues) /\ Enqueue(LongQueue, LongItem)
    \/ \E quantum \in 0..MaxQuantum : Run(quantum, None)
    \/ Turn

SpecDrain == Init /\ [][NextDrain]_vars /\ WF_vars(Turn)

-----------------------------------------------------------------------------
(* Vocabulary of the properties. *)

\* the step is a call of the method op (calls are made between run's turns only)
Calls(op) == pc = "idle" /\ call'.op = op

\* the step is one turn of run's loop, on the queue at the cursor
IsTurn == pc = "loop"

Current == queue_order[rr_index + 1]

RECURSIVE DigitsValue(_)
DigitsValue(ds) ==
    IF ds = <<>> THEN 0
    ELSE 10 * DigitsValue(SubSeq(ds, 1, Len(ds) - 1)) + ds[Len(ds)]

\* the events of a log, without the snapshot lines
IsEvent(line) == "event" \in DOMAIN line

-----------------------------------------------------------------------------
(* C1: every registered queue holds at most capacity tasks, in every       *)
(* reachable state; an enqueue of a known menu item into a queue whose     *)
(* length equals its capacity returns one reject event with reason full    *)
(* and leaves that queue as it was.                                        *)

CapacityRespected ==
    \A q \in DOMAIN queues : Len(queues[q].data) <= queues[q].capacity

FullIsRejected ==
    (/\ Calls("enqueue")
     /\ call'.queue_id \in DOMAIN queues
     /\ call'.item_name \in DOMAIN REQUIRED_MENU
     /\ Len(queues[call'.queue_id].data) = queues[call'.queue_id].capacity)
    => /\ Len(logs') = 1
       /\ logs'[1].event = "reject"
       /\ logs'[1].reason = "full"
       /\ logs'[1].queue = call'.queue_id
       /\ queues'[call'.queue_id] = queues[call'.queue_id]

C1_CapacityBound == []CapacityRespected /\ [][FullIsRejected]_vars

C1_Witness ==
    /\ pc = "idle"
    /\ call.op = "enqueue"
    /\ call.queue_id \in DOMAIN queues
    /\ call.item_name \in DOMAIN REQUIRED_MENU
    /\ Len(queues[call.queue_id].data) = queues[call.queue_id].capacity
    /\ Len(logs) = 1
    /\ logs[1].event = "reject"
    /\ logs[1].reason = "full"

(* C2: an enqueue call on a registered queue raises that queue's counter   *)
(* by exactly 1 whatever its outcome, and the event it returns carries the *)
(* new counter value in its task id; no other step changes a counter; the  *)
(* ids of the tasks held were issued for their queue, once each.           *)

IdsIssuedOnce ==
    \A q \in DOMAIN queues :
        \A i \in 1..Len(queues[q].data) :
            LET id == queues[q].data[i].task_id
            IN  /\ id.queue = q
                /\ DigitsValue(id.digits) \in 1..id_counter[q]
                /\ \A j \in 1..Len(queues[q].data) :
                       queues[q].data[j].task_id = id => j = i

EnqueueCounts ==
    IF Calls("enqueue") /\ call'.queue_id \in DOMAIN queues
    THEN LET q == call'.queue_id
         IN  /\ id_counter'[q] = id_counter[q] + 1
             /\ \A p \in DOMAIN id_counter \ {q} : id_counter'[p] = id_counter[p]
             /\ Len(logs') = 1
             /\ logs'[1].event \in {"enqueue", "reject"}
             /\ logs'[1].task.queue = q
             /\ Len(logs'[1].task.digits) >= PadWidth
             /\ DigitsValue(logs'[1].task.digits) = id_counter'[q]
    ELSE \A p \in DOMAIN id_counter : id_counter'[p] = id_counter[p]

C2_CounterPerEnqueue == []IdsIssuedOnce /\ [][EnqueueCounts]_vars

C2_Witness ==
    /\ pc = "idle"
    /\ call.op = "enqueue"
    /\ call.queue_id \in DOMAIN queues
    /\ Len(logs) = 1
    /\ logs[1].event = "reject"
    /\ id_counter[call.queue_id] = 2
    /\ DigitsValue(logs[1].task.digits) = 2
    /\ Len(queues[call.queue_id].data) = 1

(* C3: enqueue and mark_skip on an id that was never passed to             *)
(* create_queue return an empty log and leave time, the queues, the order, *)
(* the counters, the skip flags and the cursor unchanged, for every item   *)
(* name, on the menu or not.                                               *)

UnknownQueueIgnored ==
    (/\ Calls("enqueue") \/ Calls("mark_skip")
     /\ call'.queue_id \notin DOMAIN queues)
    => /\ logs' = <<>>
       /\ stdout' = <<>>
       /\ UNCHANGED state

C3_UnknownQueueIgnored == [][UnknownQueueIgnored]_vars

C3_Witness ==
    /\ pc = "idle"
    /\ call.op = "enqueue"
    /\ call.queue_id \notin DOMAIN queues
    /\ call.item_name \in DOMAIN REQUIRED_MENU
    /\ \E q \in DOMAIN queues : queues[q].data # <<>>
    /\ logs = <<>>

(* C4: every task held in a queue has remaining > 0, in every state and in *)
(* every snapshot; a task that a turn finishes is in no queue and in no    *)
(* snapshot from that turn on.                                             *)

Held(qs) ==
    UNION {{qs[q].data[i] : i \in 1..Len(qs[q].data)} : q \in DOMAIN qs}

HeldIds(qs) == {t.task_id : t \in Held(qs)}

IsQueueLine(line) == "display" \in DOMAIN line /\ line.display = "queue"

HeldPositive == \A t \in Held(queues) : t.remaining > 0

SnapshotsPositive ==
    \A k \in 1..Len(logs) :
        IsQueueLine(logs[k]) =>
            \A i \in 1..Len(logs[k].tasks) : logs[k].tasks[i].remaining > 0

FinishedGone ==
    \A k \in 1..Len(logs) :
        (IsEvent(logs[k]) /\ logs[k].event = "finish") =>
            /\ logs[k].task \notin HeldIds(queues)
            /\ \A m \in (k + 1)..Len(logs) :
                   IsQueueLine(logs[m]) =>
                       \A i \in 1..Len(logs[m].tasks) :
                           logs[m].tasks[i].task_id # logs[k].task

C4_PositiveRemaining == HeldPositive /\ SnapshotsPositive /\ FinishedGone

C4_Witness ==
    /\ \E k \in 1..Len(logs) : IsEvent(logs[k]) /\ logs[k].event = "finish"
    /\ Held(queues) # {}

(* C5: a turn that services a task (flag not set, queue not empty) lowers  *)
(* the remaining of the head task by min(remaining, quantum), which is at  *)
(* least 1 and at most remaining, and raises time by the same amount; no   *)
(* other task changes in that step, and no task changes in any other step. *)

Services == IsTurn /\ ~skip_flags[Current] /\ queues[Current].data # <<>>

ServiceGranted ==
    Services =>
        LET t == Head(queues[Current].data)
            w == IF t.remaining <= call.quantum THEN t.remaining ELSE call.quantum
            d == queues'[Current].data
        IN  /\ w >= 1
            /\ t.remaining - w >= 0
            /\ time' = time + w
            /\ IF t.remaining - w > 0
               THEN /\ d # <<>>
                    /\ d[Len(d)] = [task_id |-> t.task_id,
                                    remaining |-> t.remaining - w]
                    /\ t.task_id \notin HeldIds(queues') \ {d[Len(d)].task_id}
               ELSE t.task_id \notin HeldIds(queues')

OthersKept ==
    \A q \in DOMAIN queues :
        \A i \in 1..Len(queues[q].data) :
            (Services /\ q = Current /\ i = 1)
            \/ \E j \in 1..Len(queues'[q].data) :
                   queues'[q].data[j] = queues[q].data[i]

C5_ServiceAmount == [][ServiceGranted /\ OthersKept]_vars

C5_Witness ==
    /\ call.op = "run"
    /\ call.quantum = 2
    /\ \E k \in 1..Len(logs), m \in 1..Len(logs) :
           /\ k < m
           /\ IsEvent(logs[k]) /\ logs[k].event = "work" /\ logs[k].remaining = 1
           /\ IsEvent(logs[m]) /\ logs[m].event = "finish"
           /\ logs[m].task = logs[k].task
           /\ logs[m].time = logs[k].time + 1
    /\ Held(queues) # {}

(* C6: whenever a queue is registered the cursor is an index into the      *)
(* order, 0 <= cursor < number of queues, also when queues are created     *)
(* between run calls.                                                      *)

C6_CursorInRange ==
    queue_order # <<>> => rr_index \in 0..(Len(queue_order) - 1)

C6_Witness ==
    /\ Len(trail) = 2
    /\ trail[1].n = 1
    /\ trail[2].n = 2
    /\ rr_index = 1

(* C7: every turn, whichever branch it takes, emits a run event naming the *)
(* queue at the cursor and moves the cursor to (cursor + 1) mod n; no      *)
(* other step moves the cursor; of two consecutive run events, in one run  *)
(* call or in successive ones, the later names the cyclic successor, in    *)
(* creation order, of the queue the earlier names.                         *)

Pos(qid) == CHOOSE i \in 1..Len(queue_order) : queue_order[i] = qid

\* the queue that follows qid when the first n queues of the order are
\* visited cyclically
SuccessorAmong(qid, n) == queue_order[(Pos(qid) % n) + 1]

CursorStep ==
    IF IsTurn
    THEN /\ rr_index' = (rr_index + 1) % Len(queue_order)
         /\ Len(logs') > Len(logs)
         /\ logs'[Len(logs) + 1] = [time |-> time, event |-> "run", queue |-> Current]
         /\ trail'[Len(trail')].queue = Current
    ELSE rr_index' = rr_index /\ trail' = trail

FollowsCyclically ==
    Len(trail) = 2 => trail[2].queue = SuccessorAmong(trail[1].queue, trail[2].n)

C7_AsClaimed == []FollowsCyclically /\ [][CursorStep]_vars

(* C7 as amended: the later of two consecutive run events names the cyclic *)
(* successor of the earlier among the queues that were registered at the   *)
(* earlier turn; this is the cyclic successor in creation order whenever   *)
(* no queue was created between the two turns.                             *)

FollowsAmongEarlier ==
    Len(trail) = 2 => trail[2].queue = SuccessorAmong(trail[1].queue, trail[1].n)

C7_CursorAdvance == []FollowsAmongEarlier /\ [][CursorStep]_vars

RunEvents(log) ==
    Cardinality({k \in 1..Len(log) : IsEvent(log[k]) /\ log[k].event = "run"})

C7_Witness ==
    /\ call.op = "run"
    /\ RunEvents(logs) = 1
    /\ Len(trail) = 2
    /\ trail[1].n = 2
    /\ trail[2].n = 2
    /\ trail[1].queue = queue_order[2]
    /\ trail[2].queue = queue_order[1]
    /\ rr_index = 1

(* C8: on return from run(quantum, steps = s) with 1 <= s <= n the log     *)
(* holds exactly s run events and exactly s snapshots, each turn being a   *)
(* run event, at most one work or finish event, and a snapshot of 2 + n    *)
(* lines; this also when the queues are empty before the s turns are done. *)

IsTimeLine(line) == "display" \in DOMAIN line /\ line.display = "time"

IsMenuLine(line) == "display" \in DOMAIN line /\ line.display = "menu"

Snapshots(log) == Cardinality({k \in 1..Len(log) : IsTimeLine(log[k])})

\* log from position k on is a sequence of whole turns of n queues each
RECURSIVE WholeTurns(_, _, _)
WholeTurns(log, k, n) ==
    IF k > Len(log) THEN TRUE
    ELSE /\ IsEvent(log[k]) /\ log[k].event = "run"
         /\ k + 1 <= Len(log)
         /\ LET e == IF IsEvent(log[k + 1]) THEN 1 ELSE 0
                s == k + 1 + e
            IN  /\ e = 1 => log[k + 1].event \in {"work", "finish"}
                /\ s + 1 + n <= Len(log)
                /\ IsTimeLine(log[s])
                /\ IsMenuLine(log[s + 1])
                /\ \A i \in 1..n :
                       IsQueueLine(log[s + 1 + i])
                       /\ log[s + 1 + i].queue = queue_order[i]
                /\ WholeTurns(log, s + 2 + n, n)

BoundedRunReturned ==
    /\ pc = "idle"
    /\ call.op = "run"
    /\ call.steps # None
    /\ call.steps[1] \in 1..Len(queue_order)

C8_ExactlySTurns ==
    BoundedRunReturned =>
        /\ RunEvents(logs) = call.steps[1]
        /\ Snapshots(logs) = call.steps[1]
        /\ WholeTurns(logs, 1, Len(queue_order))

C8_Witness ==
    /\ BoundedRunReturned
    /\ call.steps[1] = 2
    /\ RunEvents(logs) = 2
    /\ \A k \in 1..Len(logs) : IsQueueLine(logs[k]) => logs[k].tasks = <<>>
    /\ \A q \in DOMAIN skip_flags : ~skip_flags[q]

(* C9: with n >= 1 queues, run(quantum, steps = s) with s < 1 or s > n     *)
(* returns the single event error/invalid_steps, executes no turn and      *)
(* leaves time, the queues, the order, the counters, the skip flags and    *)
(* the cursor unchanged.                                                   *)

InvalidStepsRejected ==
    (/\ Calls("run")
     /\ queue_order # <<>>
     /\ call'.steps # None
     /\ call'.steps[1] < 1 \/ call'.steps[1] > Len(queue_order))
    => /\ logs' = << [time |-> time, event |-> "error", reason |-> "invalid_steps"] >>
       /\ pc' = "idle"
       /\ UNCHANGED state

C9_InvalidSteps == [][InvalidStepsRejected]_vars

C9_Witness ==
    /\ pc = "idle"
    /\ call.op = "run"
    /\ call.steps # None
    /\ call.steps[1] > Len(queue_order)
    /\ queue_order # <<>>
    /\ Len(logs) = 1
    /\ logs[1].event = "error"
    /\ Held(queues) # {}
    /\ \E q \in DOMAIN skip_flags : skip_flags[q]

(* C10: an unbounded run (steps absent) returns after a turn exactly when  *)
(* that turn leaves every queue empty and no skip flag set; so on return   *)
(* from an unbounded run every queue is empty and every skip flag false.   *)

NothingPending(qs, skips) ==
    /\ \A q \in DOMAIN qs : qs[q].data = <<>>
    /\ \A q \in DOMAIN skips : ~skips[q]

StopsExactlyWhenDrained ==
    (IsTurn /\ call.steps = None)
    => (pc' = "idle" <=> NothingPending(queues', skip_flags'))

UnboundedRunReturned ==
    /\ pc = "idle"
    /\ call.op = "run"
    /\ call.steps = None
    /\ queue_order # <<>>

ReturnsDrained == UnboundedRunReturned => NothingPending(queues, skip_flags)

C10_StopsExactlyWhenDrained ==
    [][StopsExactlyWhenDrained]_vars /\ []ReturnsDrained

(* C11: an unbounded run with n >= 1 queues always returns, after at least *)
(* 1 and at most n x 100 turns, whatever the quantum and the contents of   *)
(* the queues.                                                             *)

TurnsWithinCeiling ==
    /\ (pc = "loop" /\ call.steps = None) =>
           /\ RunEvents(logs) = local.turns_done
           /\ local.turns_done < Len(queue_order) * 100
    /\ UnboundedRunReturned =>
           RunEvents(logs) \in 1..(Len(queue_order) * 100)

C11_UnboundedRunTerminates ==
    []TurnsWithinCeiling /\ ((pc = "loop") ~> (pc = "idle"))

C11_Witness ==
    /\ UnboundedRunReturned
    /\ Len(queue_order) = 2
    /\ RunEvents(logs) = 200
    /\ Held(queues) # {}

(* C12: a turn on a queue whose skip flag is set clears that flag, moves   *)
(* the cursor and changes nothing else: time, every queue's tasks, their   *)
(* order and their remaining stay as they were, and the head task of the   *)
(* queue gets no service (no work or finish event), also when the queue    *)
(* holds tasks.                                                            *)

SkipTurn == IsTurn /\ skip_flags[Current]

\* the lines a step adds to the log
Added(i) == i \in (Len(logs) + 1)..Len(logs')

SkipTurnOnlyClears ==
    SkipTurn =>
        /\ skip_flags' = [skip_flags EXCEPT ![Current] = FALSE]
        /\ time' = time
        /\ queues' = queues
        /\ queue_order' = queue_order
        /\ id_counter' = id_counter
        /\ rr_index' = (rr_index + 1) % Len(queue_order)
        /\ \A i \in 1..Len(logs') :
               (Added(i) /\ IsEvent(logs'[i])) =>
                   /\ logs'[i].event = "run"
                   /\ logs'[i].queue = Current

C12_SkipTurnOnlyClears == [][SkipTurnOnlyClears]_vars

\* the last turn of the run call visited a queue that holds tasks and gave
\* no service
C12_Witness ==
    /\ call.op = "run"
    /\ \E k \in 1..Len(logs) :
           /\ IsEvent(logs[k]) /\ logs[k].event = "run"
           /\ \A i \in (k + 1)..Len(logs) : ~ IsEvent(logs[i])
           /\ queues[logs[k].queue].data # <<>>
           /\ ~ skip_flags[logs[k].queue]

(* C13: the skip flag is one-shot.  The flag of q is raised by a           *)
(* mark_skip(q) call only and lowered by a turn on q only, and a turn on q *)
(* always leaves it lowered; a mark_skip(q) on a raised flag changes no    *)
(* state, so several marks forfeit one turn; a turn on q with the flag     *)
(* lowered serves the head task of q (a work or finish event for it).      *)

Raised(q) == q \in DOMAIN skip_flags /\ skip_flags[q]

RaisedByMarkOnly ==
    \A q \in DOMAIN skip_flags' :
        (~ Raised(q) /\ skip_flags'[q]) =>
            (Calls("mark_skip") /\ call'.queue_id = q)

LoweredByTurnOnly ==
    \A q \in DOMAIN skip_flags :
        /\ (skip_flags[q] /\ ~ skip_flags'[q]) => (IsTurn /\ Current = q)
        /\ (IsTurn /\ Current = q) => ~ skip_flags'[q]

MarkTwiceIsMarkOnce ==
    (Calls("mark_skip") /\ Raised(call'.queue_id)) => state' = state

ServedWhenLowered ==
    Services =>
        \E i \in 1..Len(logs') :
            /\ Added(i) /\ IsEvent(logs'[i])
            /\ logs'[i].event \in {"work", "finish"}
            /\ logs'[i].queue = Current
            /\ logs'[i].task = Head(queues[Current].data).task_id

C13_SkipIsOneShot ==
    [][RaisedByMarkOnly /\ LoweredByTurnOnly
       /\ MarkTwiceIsMarkOnce /\ ServedWhenLowered]_vars

\* within one run call a queue that holds tasks forfeits a turn and is
\* served at its following turn
C13_Witness ==
    /\ call.op = "run"
    /\ \E k \in 1..Len(logs), m \in 1..Len(logs) :
           /\ k < m /\ m < Len(logs)
           /\ IsEvent(logs[k]) /\ logs[k].event = "run"
           /\ ~ IsEvent(logs[k + 1])
           /\ \E j \in (k + 1)..(m - 1) :
                  /\ IsQueueLine(logs[j])
                  /\ logs[j].queue = logs[k].queue
                  /\ logs[j].count > 0
           /\ \A j \in (k + 1)..(m - 1) :
                  ~ (IsEvent(logs[j]) /\ logs[j].event = "run"
                     /\ logs[j].queue = logs[k].queue)
           /\ IsEvent(logs[m]) /\ logs[m].event = "run"
           /\ logs[m].queue = logs[k].queue
           /\ IsEvent(logs[m + 1]) /\ logs[m + 1].event \in {"work", "finish"}

(* C14: time never decreases, and it changes only in a turn that serves a  *)
(* task: every call (create_queue, enqueue accepted or rejected,           *)
(* mark_skip, display, run and its invalid_steps rejection), every skip    *)
(* turn and every turn on an empty queue leave time as it was.             *)

TimeMonotone == time' >= time

TimeMovesInServiceOnly == (time' # time) => Services

C14_TimeMonotone == [][TimeMonotone /\ TimeMovesInServiceOnly]_vars

\* a run call rejected for its steps after some service was granted
C14_Witness ==
    /\ time > 0
    /\ call.op = "run"
    /\ Len(logs) = 1
    /\ logs[1].event = "error"
    /\ logs[1].time = time
    /\ \E q \in DOMAIN skip_flags : skip_flags[q]

(* C15: an enqueue on a registered queue that is rejected (unknown_item or *)
(* full) returns exactly one reject event and changes nothing in the       *)
(* Scheduler: time, queues, order, counters, skip flags and cursor.        *)
(* As claimed it does not hold: the counter of the queue has risen.        *)

RejectedEnqueue ==
    /\ Calls("enqueue")
    /\ call'.queue_id \in DOMAIN queues
    /\ \/ call'.item_name \notin DOMAIN REQUIRED_MENU
       \/ Len(queues[call'.queue_id].data) >= queues[call'.queue_id].capacity

OneRejectEvent ==
    /\ Len(logs') = 1
    /\ logs'[1].event = "reject"
    /\ logs'[1].reason \in {"unknown_item", "full"}
    /\ logs'[1].queue = call'.queue_id

C15_AsClaimed == [][RejectedEnqueue => (OneRejectEvent /\ state' = state)]_vars

(* C15, amended: the rejected enqueue returns exactly one reject event and *)
(* changes nothing but the counter of its queue, which rises by 1.         *)

RejectCostsOneId ==
    RejectedEnqueue =>
        /\ OneRejectEvent
        /\ id_counter' = [id_counter EXCEPT ![call'.queue_id] = @ + 1]
        /\ time' = time
        /\ queues' = queues
        /\ queue_order' = queue_order
        /\ skip_flags' = skip_flags
        /\ rr_index' = rr_index

C15_RejectCostsOneId == [][RejectCostsOneId]_vars

\* a rejection for capacity after some service, with a flag raised
C15_Witness ==
    /\ pc = "idle"
    /\ call.op = "enqueue"
    /\ Len(logs) = 1
    /\ logs[1].event = "reject"
    /\ logs[1].reason = "full"
    /\ time > 0
    /\ skip_flags[call.queue_id]
    /\ rr_index > 0

(* C16: create_queue with an id that is already registered, with the same  *)
(* or another capacity, returns no log and changes nothing; so the order   *)
(* holds each registered id exactly once, in the order of first creation   *)
(* (the order only ever grows at its end).                                 *)

CreateAgainIsNoOp ==
    (Calls("create_queue") /\ call'.queue_id \in DOMAIN queues)
    => (logs' = <<>> /\ state' = state)

OrderGrowsAtEnd ==
    /\ Len(queue_order') >= Len(queue_order)
    /\ SubSeq(queue_order', 1, Len(queue_order)) = queue_order
    /\ Len(queue_order') > Len(queue_order) =>
           /\ Calls("create_queue")
           /\ queue_order' = Append(queue_order, call'.queue_id)
           /\ call'.queue_id \notin DOMAIN queues

EachIdOnce ==
    /\ \A i, j \in 1..Len(queue_order) :
           queue_order[i] = queue_order[j] => i = j
    /\ {queue_order[i] : i \in 1..Len(queue_order)} = DOMAIN queues
    /\ DOMAIN id_counter = DOMAIN queues
    /\ DOMAIN skip_flags = DOMAIN queues

C16_CreateIdempotent == []EachIdOnce /\ [][CreateAgainIsNoOp /\ OrderGrowsAtEnd]_vars

\* a second create_queue of an id, with another capacity, on a queue in use
C16_Witness ==
    /\ call.op = "create_queue"
    /\ logs = <<>>
    /\ call.capacity # queues[call.queue_id].capacity
    /\ queues[call.queue_id].data # <<>>
    /\ id_counter[call.queue_id] > 0
    /\ Len(queue_order) = 2

(* C17: with no queue registered a run call does nothing in any mode:      *)
(* whatever the quantum and the steps (absent, or any number, below 1      *)
(* included) it returns the empty log, no error event among it, and        *)
(* changes no state.                                                       *)

RunWithoutQueues == Calls("run") /\ queue_order = <<>>

RunWithoutQueuesIsNoOp ==
    RunWithoutQueues =>
        /\ logs' = <<>>
        /\ stdout' = <<>>
        /\ pc' = "idle"
        /\ state' = state

C17_RunWithoutQueues == [][RunWithoutQueuesIsNoOp]_vars

\* a bounded run call with steps below 1 on the empty registry
C17_Witness ==
    /\ pc = "idle"
    /\ call.op = "run"
    /\ call.steps = Some(0)
    /\ queue_order = <<>>
    /\ logs = <<>>

(* C18: a served task that still has remaining > 0 goes back to the tail   *)
(* of its queue: the queue keeps its length and its tasks, the served task *)
(* is last, the others keep their order with the former second task at the *)
(* head; the re-insertion never fails on capacity, so a task leaves its    *)
(* queue only in the turn that serves it down to remaining 0.              *)

Grant == Min(Head(queues[Current].data).remaining, call.quantum)

ReinsertedAtTail ==
    (Services /\ Head(queues[Current].data).remaining > call.quantum) =>
        LET before == queues[Current].data
            after == queues'[Current].data
        IN  /\ Len(after) = Len(before)
            /\ {after[i].task_id : i \in 1..Len(after)}
                   = {before[i].task_id : i \in 1..Len(before)}
            /\ after[Len(after)] =
                   [task_id |-> before[1].task_id,
                    remaining |-> before[1].remaining - call.quantum]
            /\ \A i \in 1..(Len(before) - 1) : after[i] = before[i + 1]

LeavesOnlyByFinishing ==
    \A id \in HeldIds(queues) \ HeldIds(queues') :
        /\ Services
        /\ id = Head(queues[Current].data).task_id
        /\ Head(queues[Current].data).remaining = Grant
        /\ \E i \in 1..Len(logs') :
               /\ Added(i) /\ IsEvent(logs'[i])
               /\ logs'[i].event = "finish" /\ logs'[i].task = id

C18_ReinsertedAtTail == [][ReinsertedAtTail /\ LeavesOnlyByFinishing]_vars

\* the last turn of the run call served the head of a full queue of two and
\* put it back behind the other task
C18_Witness ==
    /\ call.op = "run"
    /\ \E k \in 1..Len(logs) :
           /\ IsEvent(logs[k]) /\ logs[k].event = "work"
           /\ \A i \in (k + 1)..Len(logs) : ~ IsEvent(logs[i])
           /\ LET q == queues[logs[k].queue]
              IN  /\ Len(q.data) = 2
                  /\ q.capacity = 2
                  /\ q.data[2].task_id = logs[k].task
                  /\ q.data[2].remaining = logs[k].remaining

(* C19: the menu is tested before the capacity.  An enqueue of a name that *)
(* is not in the menu is rejected with reason unknown_item, never with     *)
(* reason full, also when the queue is at capacity; the queue's contents   *)
(* are not touched.                                                        *)

UnknownItemEnqueue ==
    /\ Calls("enqueue")
    /\ call'.queue_id \in DOMAIN queues
    /\ call'.item_name \notin DOMAIN REQUIRED_MENU

MenuTestedFirst ==
    UnknownItemEnqueue =>
        /\ Len(logs') = 1
        /\ logs'[1].event = "reject"
        /\ logs'[1].reason = "unknown_item"
        /\ logs'[1].queue = call'.queue_id
        /\ stdout' = <<"Sorry, we don't serve that.">>
        /\ queues' = queues

C19_MenuTestedFirst == [][MenuTestedFirst]_vars

\* an unknown name refused at a queue that holds as many tasks as it can
C19_Witness ==
    /\ pc = "idle"
    /\ call.op = "enqueue"
    /\ call.item_name \notin DOMAIN REQUIRED_MENU
    /\ call.queue_id \in DOMAIN queues
    /\ queues[call.queue_id].data # <<>>
    /\ Len(queues[call.queue_id].data) = queues[call.queue_id].capacity
    /\ Len(logs) = 1
    /\ logs[1].reason = "unknown_item"

(* C20: service time is conserved.  In every reachable state, time plus    *)
(* the remaining of all tasks held in all queues equals the menu costs of  *)
(* all tasks ever accepted: the sum is 0 at construction, an accepted      *)
(* enqueue adds the menu cost of its item to it, and no other step changes *)
(* it (what a turn takes from a task it adds to time).                     *)

RECURSIVE SumRemaining(_)
SumRemaining(data) ==
    IF data = <<>> THEN 0 ELSE Head(data).remaining + SumRemaining(Tail(data))

RECURSIVE Outstanding(_, _)
Outstanding(qs, ids) ==
    IF ids = {} THEN 0
    ELSE LET q == CHOOSE x \in ids : TRUE
         IN  SumRemaining(qs[q].data) + Outstanding(qs, ids \ {q})

Balance == time + Outstanding(queues, DOMAIN queues)

BalanceNext == time' + Outstanding(queues', DOMAIN queues')

Accepted ==
    /\ Calls("enqueue")
    /\ logs' # <<>>
    /\ logs'[1].event = "enqueue"

Conserved ==
    BalanceNext = Balance + (IF Accepted THEN REQUIRED_MENU[call'.item_name] ELSE 0)

NothingOwedAtStart == (call.op = "init") => Balance = 0

C20_ServiceConserved == []NothingOwedAtStart /\ [][Conserved]_vars

\* two accepted lattes, one finished and one partly served
C20_Witness ==
    /\ Balance = 2 * REQUIRED_MENU["latte"]
    /\ time > REQUIRED_MENU["latte"]
    /\ Cardinality(Held(queues)) = 1
    /\ \A t \in Held(queues) : t.remaining < REQUIRED_MENU["latte"]

====
